---------------------------- MODULE Spec2Model ----------------------------
(***************************************************************************)
(* Model of src/app.py: the Flask backend with the two POST handlers       *)
(* validate_startup and generate_faq.  Each handler reads the credential   *)
(* from the process environment, parses and validates the request body,    *)
(* renders a prompt, issues one blocking requests.post to the provider and *)
(* maps the provider's reply or the raised exception to a JSON response.   *)
(***************************************************************************)
EXTENDS Integers, Sequences, FiniteSets, TLC

VARIABLES
    env,    \* os.environ's value for NVIDIA_API_KEY ("UNSET" when not in the environment)
    lib,    \* the exception class that Response.json() of the installed requests raises
    req,    \* per worker slot: the handler's position and its local variables
    prev    \* history: what the previously completed request found the credential to be

vars == <<env, lib, req, prev>>

----------------------------------------------------------------------------
(* Bounds of the model.                                                    *)

\* number of worker slots handling requests in parallel (concurrent specifications)
NumWorkers == 2
\* how many fields of an object body may deviate from a plain non-empty string
MaxOddFields == 2

----------------------------------------------------------------------------
(* JSON values as Python sees them after parsing.  Every value is a record *)
(* of the same shape: t the type, s the spelling of a scalar, keys the     *)
(* keys of an object in order, items the elements of an array or the       *)
(* values of an object.                                                    *)

JNull == [t |-> "null", s |-> "", keys |-> <<>>, items |-> <<>>]
JStr(x) == [t |-> "string", s |-> x, keys |-> <<>>, items |-> <<>>]
JNum(x) == [t |-> "number", s |-> x, keys |-> <<>>, items |-> <<>>]
JBool(x) == [t |-> "bool", s |-> x, keys |-> <<>>, items |-> <<>>]
JArr(xs) == [t |-> "array", s |-> "", keys |-> <<>>, items |-> xs]
JObj(ks, xs) == [t |-> "object", s |-> "", keys |-> ks, items |-> xs]
\* a key that a response body or a request body does not carry
Absent == [t |-> "absent", s |-> "", keys |-> <<>>, items |-> <<>>]

\* the result of an expression that may raise: exc = "" when it returned val
Ok(v) == [exc |-> "", msg |-> "", val |-> v]
Raise(cls, m) == [exc |-> cls, msg |-> m, val |-> JNull]

\* mutant: strings are stripped before they are tested
Truthy_Strip(j) ==
    CASE j.t = "null" -> FALSE
      [] j.t = "bool" -> j.s = "true"
      [] j.t = "number" -> j.s # "0"
      [] j.t = "string" -> j.s \notin {"", " "}
      [] j.t = "array" -> j.items # <<>>
      [] j.t = "object" -> j.keys # <<>>
      [] OTHER -> FALSE

\* Python truth value of a parsed JSON value (not x / all([...]) / x and ...)
Truthy(j) ==
    CASE j.t = "null" -> FALSE
      [] j.t = "bool" -> j.s = "true"
      [] j.t = "number" -> j.s # "0"
      [] j.t = "string" -> j.s # ""
      [] j.t = "array" -> j.items # <<>>
      [] j.t = "object" -> j.keys # <<>>
      [] OTHER -> FALSE

\* the value an object holds for key k (the last occurrence wins)
ValueOf(j, k) ==
    LET hits == {i \in 1..Len(j.keys) : j.keys[i] = k}
    IN  j.items[CHOOSE i \in hits : \A h \in hits : h <= i]

\* sub in s for two Python strings
IsSubstring(sub, s) ==
    \E i \in 1..(Len(s) - Len(sub) + 1) : SubSeq(s, i, i + Len(sub) - 1) = sub

\* type(j).__name__
TypeName(j) ==
    CASE j.t = "null" -> "NoneType"
      [] j.t = "bool" -> "bool"
      [] j.t = "number" -> "int"
      [] j.t = "string" -> "str"
      [] j.t = "array" -> "list"
      [] OTHER -> "dict"

\* data.get(k): dict.get, AttributeError on anything that is not a dict
DictGet(j, k) ==
    IF j.t = "object"
    THEN Ok(IF \E i \in 1..Len(j.keys) : j.keys[i] = k THEN ValueOf(j, k) ELSE JNull)
    ELSE Raise("AttributeError", "'" \o TypeName(j) \o "' object has no attribute 'get'")

\* k in j
Contains(k, j) ==
    CASE j.t = "object" -> Ok(JBool(IF \E i \in 1..Len(j.keys) : j.keys[i] = k
                                    THEN "true" ELSE "false"))
      [] j.t = "array" -> Ok(JBool(IF \E i \in 1..Len(j.items) : j.items[i] = JStr(k)
                                   THEN "true" ELSE "false"))
      [] j.t = "string" -> Ok(JBool(IF IsSubstring(k, j.s) THEN "true" ELSE "false"))
      [] OTHER -> Raise("TypeError", "argument of type '" \o TypeName(j) \o "' is not iterable")

\* j[k] for a string key k
GetKey(j, k) ==
    CASE j.t = "object" ->
            IF \E i \in 1..Len(j.keys) : j.keys[i] = k
            THEN Ok(ValueOf(j, k)) ELSE Raise("KeyError", "'" \o k \o "'")
      [] j.t = "array" -> Raise("TypeError", "list indices must be integers or slices, not str")
      [] j.t = "string" -> Raise("TypeError", "string indices must be integers, not 'str'")
      [] OTHER -> Raise("TypeError", "'" \o TypeName(j) \o "' object is not subscriptable")

\* mutant: j[-1] where the code has j[0]
GetFirst_Last(j) ==
    CASE j.t = "array" ->
            IF j.items = <<>> THEN Raise("IndexError", "list index out of range")
            ELSE Ok(j.items[Len(j.items)])
      [] j.t = "string" ->
            IF j.s = "" THEN Raise("IndexError", "string index out of range")
            ELSE Ok(JStr(SubSeq(j.s, Len(j.s), Len(j.s))))
      [] j.t = "object" -> Raise("KeyError", "-1")
      [] OTHER -> Raise("TypeError", "'" \o TypeName(j) \o "' object is not subscriptable")

\* j[0]
GetFirst(j) ==
    CASE j.t = "array" ->
            IF j.items = <<>> THEN Raise("IndexError", "list index out of range")
            ELSE Ok(j.items[1])
      [] j.t = "string" ->
            IF j.s = "" THEN Raise("IndexError", "string index out of range")
            ELSE Ok(JStr(SubSeq(j.s, 1, 1)))
      [] j.t = "object" -> Raise("KeyError", "0")
      [] OTHER -> Raise("TypeError", "'" \o TypeName(j) \o "' object is not subscriptable")

----------------------------------------------------------------------------
(* Exceptions: the classes the handlers can meet and their base classes.   *)

Bases(cls) ==
    CASE cls \in {"AttributeError", "KeyError", "TypeError", "IndexError"} ->
            {cls, "Exception"}
      [] cls \in {"BadRequest", "UnsupportedMediaType"} ->
            {cls, "HTTPException", "Exception"}
      [] cls \in {"ConnectionError", "ReadTimeout", "HTTPError"} ->
            {cls, "RequestException", "OSError", "Exception"}
      [] cls = "json.JSONDecodeError" ->
            {cls, "ValueError", "Exception"}
      [] cls = "simplejson.JSONDecodeError" ->
            {cls, "ValueError", "Exception"}
      [] cls = "requests.JSONDecodeError" ->
            {cls, "InvalidJSONError", "RequestException", "OSError",
             "json.JSONDecodeError", "ValueError", "Exception"}
      [] OTHER -> {cls}

IsInstance(cls, base) == base \in Bases(cls)

\* what Response.json() raises on an undecodable body: requests >= 2.27 raises its
\* own JSONDecodeError (a RequestException and a json.JSONDecodeError at once),
\* older releases let json's or, when installed, simplejson's through
JsonErrorClasses ==
    {"requests.JSONDecodeError", "json.JSONDecodeError", "simplejson.JSONDecodeError"}

----------------------------------------------------------------------------
(* HTTP responses of the handlers: jsonify(body), status.                  *)

NoKeys ==
    [success |-> Absent, error |-> Absent, details |-> Absent,
     raw_response |-> Absent, ai_response |-> Absent, faq_content |-> Absent]

NoResponse == [status |-> 0, json |-> FALSE, body |-> NoKeys]

Jsonify(body, status) == [status |-> status, json |-> TRUE, body |-> body]

\* an exception that leaves the view function: Flask answers with its own error page
Unhandled == [status |-> 500, json |-> FALSE, body |-> NoKeys]

VALIDATE == "/validate_startup"
FAQ == "/generate_faq"
Endpoints == {VALIDATE, FAQ}

\* the fields each handler reads with data.get, in the order it reads them
RequiredFields(endpoint) ==
    IF endpoint = VALIDATE
    THEN <<"startupName", "description", "targetMarket", "businessModel",
           "competitiveAdvantage">>
    ELSE <<"startupName", "startupDescription">>

MissingMessage(endpoint) ==
    IF endpoint = VALIDATE
    THEN "Missing one or more required startup details."
    ELSE "Missing startup name or description."

ResultKey(endpoint) == IF endpoint = VALIDATE THEN "ai_response" ELSE "faq_content"

MaxTokens(endpoint) == IF endpoint = VALIDATE THEN 1024 ELSE 1000

ConfigurationError ==
    Jsonify([NoKeys EXCEPT !.error = JStr("NVIDIA_API_KEY is not set in the .env file.")],
            500)

ValidationError(endpoint) ==
    Jsonify([NoKeys EXCEPT !.error = JStr(MissingMessage(endpoint))], 400)

\* except requests.exceptions.RequestException as e
ProviderRequestError(m) ==
    Jsonify([NoKeys EXCEPT !.error = JStr("NVIDIA API request failed: " \o m),
                           !.details = JStr(m)], 500)

\* except json.JSONDecodeError
ProviderResponseError(hasResponse, text) ==
    Jsonify([NoKeys EXCEPT !.error = JStr("Invalid JSON response from NVIDIA API."),
                           !.raw_response =
                               JStr(IF hasResponse THEN text ELSE "No response from API")],
            500)

\* except Exception as e
InternalError(m) ==
    Jsonify([NoKeys EXCEPT !.error = JStr("An unexpected error occurred: " \o m),
                           !.details = JStr(m)], 500)

ProviderEmptyResultError(response_data) ==
    Jsonify([NoKeys EXCEPT !.error = JStr("No valid response from NVIDIA API."),
                           !.raw_response = response_data], 500)

Success(endpoint, ai_text) ==
    Jsonify([NoKeys EXCEPT !.success = JBool("true"), ![ResultKey(endpoint)] = ai_text],
            200)

\* mutant: the handler without its final except Exception clause
Except_NoCatchAll(cls, m, hasResponse, text) ==
    IF IsInstance(cls, "RequestException") THEN ProviderRequestError(m)
    ELSE IF IsInstance(cls, "json.JSONDecodeError")
         THEN ProviderResponseError(hasResponse, text)
    ELSE Unhandled

\* the except clauses of a handler, tried in the order they are written
Except(cls, m, hasResponse, text) ==
    IF IsInstance(cls, "RequestException") THEN ProviderRequestError(m)
    ELSE IF IsInstance(cls, "json.JSONDecodeError")
         THEN ProviderResponseError(hasResponse, text)
    ELSE IF IsInstance(cls, "Exception") THEN InternalError(m)
    ELSE Unhandled

----------------------------------------------------------------------------
(* The provider: what requests.post(..., timeout=60) can come back with.   *)

\* requests.post raised before any response was received
PostRaised(cls, m) == [exc |-> cls, msg |-> m, status |-> 0, text |-> ""]
\* requests.post returned a Response
PostReturned(status, text) == [exc |-> "", msg |-> "", status |-> status, text |-> text]

NoOutcome == PostReturned(0, "")

Choice(c) == JObj(<<"message">>, <<JObj(<<"content">>, <<c>>)>>)
ChoicesBody(c) == JObj(<<"choices">>, <<c>>)

\* json.loads on the response texts the provider is modelled to send
ParseJSON(text) ==
    CASE text = "{\"choices\":[{\"message\":{\"content\":\"A\"}}]}" ->
            Ok(ChoicesBody(JArr(<<Choice(JStr("A"))>>)))
      [] text = "{\"choices\":[{\"message\":{\"content\":\"A\"}},{\"message\":{\"content\":\"B\"}}]}" ->
            Ok(ChoicesBody(JArr(<<Choice(JStr("A")), Choice(JStr("B"))>>)))
      [] text = "{\"choices\":[{\"message\":{\"content\":\"B\"}},{}]}" ->
            Ok(ChoicesBody(JArr(<<Choice(JStr("B")), JObj(<<>>, <<>>)>>)))
      [] text = "{\"choices\":[{\"message\":{\"content\":null}}]}" ->
            Ok(ChoicesBody(JArr(<<Choice(JNull)>>)))
      [] text = "{\"choices\":[{\"message\":{}}]}" ->
            Ok(ChoicesBody(JArr(<<JObj(<<"message">>, <<JObj(<<>>, <<>>)>>)>>)))
      [] text = "{\"choices\":[{\"message\":null}]}" ->
            Ok(ChoicesBody(JArr(<<JObj(<<"message">>, <<JNull>>)>>)))
      [] text = "{\"choices\":[{\"message\":\"A\"}]}" ->
            Ok(ChoicesBody(JArr(<<JObj(<<"message">>, <<JStr("A")>>)>>)))
      [] text = "{\"choices\":[{}]}" -> Ok(ChoicesBody(JArr(<<JObj(<<>>, <<>>)>>)))
      [] text = "{\"choices\":[null]}" -> Ok(ChoicesBody(JArr(<<JNull>>)))
      [] text = "{\"choices\":[\"A\"]}" -> Ok(ChoicesBody(JArr(<<JStr("A")>>)))
      [] text = "{\"choices\":\"A\"}" -> Ok(ChoicesBody(JStr("A")))
      [] text = "{\"choices\":{\"n\":1}}" ->
            Ok(ChoicesBody(JObj(<<"n">>, <<JNum("1")>>)))
      [] text = "{\"choices\":7}" -> Ok(ChoicesBody(JNum("7")))
      [] text = "{\"choices\":[]}" -> Ok(ChoicesBody(JArr(<<>>)))
      [] text = "{\"choices\":null}" -> Ok(ChoicesBody(JNull))
      [] text = "{\"choices\":\"\"}" -> Ok(ChoicesBody(JStr("")))
      [] text = "{}" -> Ok(JObj(<<>>, <<>>))
      [] text = "{\"id\":\"x\"}" -> Ok(JObj(<<"id">>, <<JStr("x")>>))
      [] text = "null" -> Ok(JNull)
      [] text = "[]" -> Ok(JArr(<<>>))
      [] text = "[\"x\"]" -> Ok(JArr(<<JStr("x")>>))
      [] text = "[\"choices\"]" -> Ok(JArr(<<JStr("choices")>>))
      [] text = "0" -> Ok(JNum("0"))
      [] text = "7" -> Ok(JNum("7"))
      [] text = "true" -> Ok(JBool("true"))
      [] text = "false" -> Ok(JBool("false"))
      [] text = "\"\"" -> Ok(JStr(""))
      [] text = "\"text\"" -> Ok(JStr("text"))
      [] text = "\"no choices\"" -> Ok(JStr("no choices"))
      [] OTHER -> Raise("JSONDecodeError", "Expecting value: line 1 column 1 (char 0)")

JsonTexts ==
    {"{\"choices\":[{\"message\":{\"content\":\"A\"}}]}",
     "{\"choices\":[{\"message\":{\"content\":\"A\"}},{\"message\":{\"content\":\"B\"}}]}",
     "{\"choices\":[{\"message\":{\"content\":\"B\"}},{}]}",
     "{\"choices\":[{\"message\":{\"content\":null}}]}",
     "{\"choices\":[{\"message\":{}}]}",
     "{\"choices\":[{\"message\":null}]}",
     "{\"choices\":[{\"message\":\"A\"}]}",
     "{\"choices\":[{}]}",
     "{\"choices\":[null]}",
     "{\"choices\":[\"A\"]}",
     "{\"choices\":\"A\"}",
     "{\"choices\":{\"n\":1}}",
     "{\"choices\":7}",
     "{\"choices\":[]}",
     "{\"choices\":null}",
     "{\"choices\":\"\"}",
     "{}", "{\"id\":\"x\"}", "null", "[]", "[\"x\"]", "[\"choices\"]",
     "0", "7", "true", "false", "\"\"", "\"text\"", "\"no choices\""}

NonJsonTexts == {"<html>Bad Gateway</html>", ""}

TransportErrors ==
    {PostRaised("ConnectionError", "Connection refused"),
     PostRaised("ReadTimeout", "Read timed out. (read timeout=60)")}

\* every outcome of the call the sequential specification draws from
PostOutcomes ==
    TransportErrors
    \cup {PostReturned(200, t) : t \in JsonTexts \cup NonJsonTexts}
    \cup {PostReturned(st, t) : st \in {201, 304, 401, 503},
                                t \in {"{\"choices\":[{\"message\":{\"content\":\"A\"}}]}",
                                       "{\"choices\":[]}", "<html>Bad Gateway</html>"}}

\* the few outcomes the concurrent specifications draw from
FewPostOutcomes ==
    {PostRaised("ReadTimeout", "Read timed out. (read timeout=60)"),
     PostReturned(503, "<html>Bad Gateway</html>"),
     PostReturned(200, "{\"choices\":[{\"message\":{\"content\":\"A\"}}]}"),
     PostReturned(200, "{\"choices\":[]}")}

\* nvidia_response.raise_for_status(): HTTPError for a 4xx or 5xx status
RaiseForStatus(post) ==
    IF 400 <= post.status /\ post.status < 600
    THEN Raise("HTTPError", ToString(post.status) \o " Error for url: "
                            \o "https://integrate.api.nvidia.com/v1/chat/completions")
    ELSE Ok(JNull)

\* nvidia_response.json(): the parsed body, or the installed library's decode error
ResponseJson(cls, text) ==
    LET parsed == ParseJSON(text)
    IN  IF parsed.exc = "" THEN parsed ELSE Raise(cls, parsed.msg)

\* response_data and "choices" in response_data and response_data["choices"]
HasChoices(response_data) ==
    LET found == Contains("choices", response_data)
    IN  IF ~Truthy(response_data) THEN Ok(JBool("false"))
        ELSE IF found.exc # "" THEN found
        ELSE IF ~Truthy(found.val) THEN Ok(JBool("false"))
        ELSE GetKey(response_data, "choices")

\* response_data["choices"][0]["message"]["content"]: evaluation stops at the
\* first subscript that raises
FirstChoiceText(response_data) ==
    LET choices == GetKey(response_data, "choices")
        first == GetFirst(choices.val)
        message == GetKey(first.val, "message")
    IN  IF choices.exc # "" THEN choices
        ELSE IF first.exc # "" THEN first
        ELSE IF message.exc # "" THEN message
        ELSE GetKey(message.val, "content")

\* lines 86-91 / 170-175: return the first choice's text or the empty-result error
MapResponseData(endpoint, response_data, text) ==
    LET has == HasChoices(response_data)
        ai_text == FirstChoiceText(response_data)
    IN  IF has.exc # "" THEN Except(has.exc, has.msg, TRUE, text)
        ELSE IF ~Truthy(has.val) THEN ProviderEmptyResultError(response_data)
        ELSE IF ai_text.exc # "" THEN Except(ai_text.exc, ai_text.msg, TRUE, text)
        ELSE Success(endpoint, ai_text.val)

\* lines 82-102 / 166-186 once requests.post has come back with `post`
MapOutcome(endpoint, cls, post) ==
    IF post.exc # "" THEN Except(post.exc, post.msg, FALSE, "")
    ELSE LET st == RaiseForStatus(post)
             response_data == ResponseJson(cls, post.text)
         IN  IF st.exc # "" THEN Except(st.exc, st.msg, TRUE, post.text)
             ELSE IF response_data.exc # ""
                  THEN Except(response_data.exc, response_data.msg, TRUE, post.text)
             ELSE MapResponseData(endpoint, response_data.val, post.text)

----------------------------------------------------------------------------
(* Inbound requests: what request.get_json() gives the handler.            *)

Plain == JStr("Acme")

\* what a required field may hold instead of a plain non-empty string
OddValues == {Absent, JNull, JStr(""), JStr(" "), JNum("0"), JNum("7"), JBool("false")}

\* the object whose i-th required field holds f[i], left out where f[i] is Absent
ObjectBody(endpoint, f) ==
    LET names == RequiredFields(endpoint)
        idx == SelectSeq([i \in 1..Len(names) |-> i], LAMBDA i : f[i] # Absent)
    IN  JObj([k \in 1..Len(idx) |-> names[idx[k]]], [k \in 1..Len(idx) |-> f[idx[k]]])

ObjectBodies(endpoint) ==
    LET n == Len(RequiredFields(endpoint))
    IN  {ObjectBody(endpoint, f) :
            f \in {g \in [1..n -> OddValues \cup {Plain}] :
                      Cardinality({i \in 1..n : g[i] # Plain}) <= MaxOddFields}}

\* get_json() raises on a body that is not JSON or not declared as JSON
GetJsonRaises ==
    {Raise("BadRequest", "400 Bad Request: Failed to decode JSON object"),
     Raise("UnsupportedMediaType", "415 Unsupported Media Type")}

NonObjectBodies == {Ok(JNull), Ok(JArr(<<Plain>>)), Ok(Plain), Ok(JNum("7"))}

ValidateBodies == {Ok(b) : b \in ObjectBodies(VALIDATE)}
FaqBodies == {Ok(b) : b \in ObjectBodies(FAQ)}

\* every request the sequential specification draws from
Requests ==
    {<<e, b>> : e \in Endpoints, b \in GetJsonRaises \cup NonObjectBodies}
    \cup {<<VALIDATE, b>> : b \in ValidateBodies}
    \cup {<<FAQ, b>> : b \in FaqBodies}

\* the few requests the concurrent specifications draw from
FewRequests ==
    {<<e, b>> : e \in Endpoints, b \in {Ok(JNull)}}
    \cup {<<e, Ok(ObjectBody(e, [i \in 1..Len(RequiredFields(e)) |-> Plain]))>> :
             e \in Endpoints}
    \cup {<<e, Ok(ObjectBody(e, [i \in 1..Len(RequiredFields(e)) |->
                                    IF i = 2 THEN JStr("") ELSE Plain]))>> :
             e \in Endpoints}

\* the values os.getenv("NVIDIA_API_KEY") can return; "UNSET" stands for None
EnvValues == {"UNSET", "", "nvapi-key"}

\* mutant: tests NVIDIA_API_KEY is None where the code tests not NVIDIA_API_KEY
KeyMissing_NoneOnly(key) == key = "UNSET"

\* not NVIDIA_API_KEY
KeyMissing(key) == key = "UNSET" \/ key = ""

----------------------------------------------------------------------------
(* The handlers, step by step.  A slot holds the local variables of the    *)
(* request it is handling.                                                 *)

NoPayload == [auth |-> "", model |-> "", endpoint |-> "", content |-> <<>>,
              max_tokens |-> 0]

IdleSlot ==
    [pc |-> "Idle", endpoint |-> "", body |-> Ok(JNull), NVIDIA_API_KEY |-> "UNSET",
     values |-> <<>>, payload |-> NoPayload, nvidia_response |-> NoOutcome,
     response |-> NoResponse, calls |-> 0, sent |-> 0]

Slots == DOMAIN req

\* Flask routes a POST to the view function
Receive(r, requests) ==
    /\ req[r].pc = "Idle"
    /\ \E q \in requests :
          req' = [req EXCEPT ![r] = [IdleSlot EXCEPT !.pc = "Received",
                                                     !.endpoint = q[1],
                                                     !.body = q[2]]]
    /\ UNCHANGED <<env, lib, prev>>

\* [data.get(name) for each required field]
FieldValues(endpoint, data) ==
    [i \in 1..Len(RequiredFields(endpoint)) |-> DictGet(data, RequiredFields(endpoint)[i])]

\* mutant: any([...]) where the code has all([...])
All_Any(values) == \E i \in 1..Len(values) : Truthy(values[i])

\* all([...])
All(values) == \A i \in 1..Len(values) : Truthy(values[i])

\* lines 22-37 / 111-124: the credential check, get_json, the field check
CheckRequest(slot, key) ==
    LET gets == FieldValues(slot.endpoint, slot.body.val)
        values == [i \in 1..Len(gets) |-> gets[i].val]
        keyed == [slot EXCEPT !.NVIDIA_API_KEY = key]
        Answer(resp) == [keyed EXCEPT !.pc = "Responded", !.response = resp,
                                      !.sent = @ + 1]
    IN  IF KeyMissing(key) THEN Answer(ConfigurationError)
        ELSE IF slot.body.exc # ""
             THEN Answer(Except(slot.body.exc, slot.body.msg, FALSE, ""))
        ELSE IF gets # <<>> /\ gets[1].exc # ""
             THEN Answer(Except(gets[1].exc, gets[1].msg, FALSE, ""))
        ELSE IF ~All(values) THEN Answer(ValidationError(slot.endpoint))
        ELSE [keyed EXCEPT !.pc = "Validated", !.values = values]

Validate(r) ==
    /\ req[r].pc = "Received"
    /\ req' = [req EXCEPT ![r] = CheckRequest(req[r], env)]
    /\ UNCHANGED <<env, lib, prev>>

\* lines 39-80 / 126-164: headers, prompt and payload
BuildPayload(slot) ==
    [auth |-> "Bearer " \o slot.NVIDIA_API_KEY,
     model |-> "meta/llama3-8b-instruct",
     endpoint |-> slot.endpoint,
     content |-> slot.values,
     max_tokens |-> MaxTokens(slot.endpoint)]

Render(r) ==
    /\ req[r].pc = "Validated"
    /\ req' = [req EXCEPT ![r] = [@ EXCEPT !.pc = "Rendered",
                                           !.payload = BuildPayload(req[r])]]
    /\ UNCHANGED <<env, lib, prev>>

\* line 82 / 166: requests.post is issued and the handler blocks on it
SendPost(slot) == [slot EXCEPT !.pc = "Called", !.calls = @ + 1]

Call(r) ==
    /\ req[r].pc = "Rendered"
    /\ req' = [req EXCEPT ![r] = SendPost(req[r])]
    /\ UNCHANGED <<env, lib, prev>>

\* mutant: a failed call is issued again instead of being reported
FinishPost_Retry(slot, cls, post) ==
    IF post.exc # "" THEN [slot EXCEPT !.pc = "Rendered"]
    ELSE [slot EXCEPT !.pc = "Responded",
                      !.nvidia_response = post,
                      !.response = MapOutcome(slot.endpoint, cls, post),
                      !.sent = @ + 1]

\* mutant: nvidia_response is a module-level global, so the handler maps whatever
\* reply was stored last, possibly another request's
FinishPost_Shared(slot, cls, post) ==
    LET others == {q \in DOMAIN req : req[q].pc = "Responded" /\ req[q].calls = 1}
        seen == IF others = {} THEN post
                ELSE req[CHOOSE q \in others : TRUE].nvidia_response
    IN  [slot EXCEPT !.pc = "Responded",
                     !.nvidia_response = post,
                     !.response = MapOutcome(slot.endpoint, cls, seen),
                     !.sent = @ + 1]

\* lines 82-102 / 166-186: requests.post comes back and the handler answers
FinishPost(slot, cls, post) ==
    [slot EXCEPT !.pc = "Responded",
                 !.nvidia_response = post,
                 !.response = MapOutcome(slot.endpoint, cls, post),
                 !.sent = @ + 1]

Respond(r, outcomes) ==
    /\ req[r].pc = "Called"
    /\ \E post \in outcomes : req' = [req EXCEPT ![r] = FinishPost(req[r], lib, post)]
    /\ UNCHANGED <<env, lib, prev>>

\* the response is on the wire: the request's record is discarded
Finish(r) ==
    /\ req[r].pc = "Responded"
    /\ req' = [req EXCEPT ![r] = IdleSlot]
    /\ prev' = IF KeyMissing(req[r].NVIDIA_API_KEY) THEN "absent" ELSE "present"
    /\ UNCHANGED <<env, lib>>

\* the process environment changes between two reads of it
SetEnv ==
    /\ \E v \in EnvValues \ {env} : env' = v
    /\ UNCHANGED <<lib, req, prev>>

----------------------------------------------------------------------------
(* Specifications.                                                         *)

\* the slot of the specifications that handle one request at a time
OneSlot == {1}

\* one request at a time, drawn from every modelled body and provider outcome
Init ==
    /\ env \in EnvValues
    /\ lib \in JsonErrorClasses
    /\ req = [r \in OneSlot |-> IdleSlot]
    /\ prev = "none"

Next ==
    \/ \E r \in Slots : Receive(r, Requests)
    \/ \E r \in Slots : Validate(r)
    \/ \E r \in Slots : Render(r)
    \/ \E r \in Slots : Call(r)
    \/ \E r \in Slots : Respond(r, PostOutcomes)
    \/ \E r \in Slots : Finish(r)
    \/ SetEnv

Spec == Init /\ [][Next]_vars

\* NumWorkers requests in flight at once, drawn from a few bodies and outcomes
ConcInit ==
    /\ env \in EnvValues
    /\ lib = "requests.JSONDecodeError"
    /\ req = [r \in 1..NumWorkers |-> IdleSlot]
    /\ prev = "none"

ConcNext ==
    \/ \E r \in Slots : Receive(r, FewRequests)
    \/ \E r \in Slots : Validate(r)
    \/ \E r \in Slots : Render(r)
    \/ \E r \in Slots : Call(r)
    \/ \E r \in Slots : Respond(r, FewPostOutcomes)
    \/ \E r \in Slots : Finish(r)
    \/ SetEnv

ConcSpec == ConcInit /\ [][ConcNext]_vars

\* the next step of the handler in slot r, whichever stage it is at; the runtime
\* keeps scheduling a handler that can step, and requests.post comes back with a
\* reply, an error or its 60 s timeout, which is what FairSpec states
HandlerStep(r) ==
    Validate(r) \/ Render(r) \/ Call(r) \/ Respond(r, FewPostOutcomes)

\* one request at a time, drawn from the few bodies and outcomes, under fairness
FairInit ==
    /\ env \in EnvValues
    /\ lib = "requests.JSONDecodeError"
    /\ req = [r \in OneSlot |-> IdleSlot]
    /\ prev = "none"

FairSpec ==
    /\ FairInit
    /\ [][ConcNext]_vars
    /\ \A r \in OneSlot : WF_vars(HandlerStep(r))

----------------------------------------------------------------------------
(* Vocabulary of the properties.                                           *)

\* the value the body holds for a field, Absent when it does not name it
FieldOf(body, name) ==
    IF \E i \in 1..Len(body.keys) : body.keys[i] = name THEN ValueOf(body, name)
    ELSE Absent

IsObjectBody(slot) == slot.body.exc = "" /\ slot.body.val.t = "object"

\* the body is a JSON object in which a required field is absent, null or empty
MissingField(slot) ==
    /\ IsObjectBody(slot)
    /\ \E i \in 1..Len(RequiredFields(slot.endpoint)) :
          FieldOf(slot.body.val, RequiredFields(slot.endpoint)[i])
              \in {Absent, JNull, JStr("")}

\* the body is a JSON object in which a required field is absent, null, empty,
\* zero or false
FalsyField(slot) ==
    /\ IsObjectBody(slot)
    /\ \E i \in 1..Len(RequiredFields(slot.endpoint)) :
          FieldOf(slot.body.val, RequiredFields(slot.endpoint)[i])
              \in {Absent, JNull, JStr(""), JNum("0"), JBool("false")}

KeyPresent(slot) == slot.NVIDIA_API_KEY \notin {"UNSET", ""}

Handled(slot) == slot.pc \notin {"Idle", "Received"}

\* the slot has answered after its call to the provider came back
Answered(slot) == slot.pc = "Responded" /\ slot.calls = 1

Is2xx(post) == post.exc = "" /\ 200 <= post.status /\ post.status < 300

\* the call came back 2xx with a body that json.loads accepts
Parsed2xx(slot) ==
    /\ Answered(slot)
    /\ Is2xx(slot.nvidia_response)
    /\ ParseJSON(slot.nvidia_response.text).exc = ""

ParsedBody(slot) == ParseJSON(slot.nvidia_response.text).val

\* the parsed body is an object whose `choices` is a non-empty array
NonEmptyChoices(j) ==
    /\ j.t = "object"
    /\ FieldOf(j, "choices").t = "array"
    /\ FieldOf(j, "choices").items # <<>>

\* the first choice is an object whose `message` is an object holding `content`
FirstChoiceHasText(j) ==
    /\ NonEmptyChoices(j)
    /\ FieldOf(j, "choices").items[1].t = "object"
    /\ FieldOf(FieldOf(j, "choices").items[1], "message").t = "object"
    /\ FieldOf(FieldOf(FieldOf(j, "choices").items[1], "message"), "content") # Absent

FirstChoiceTextOf(j) ==
    FieldOf(FieldOf(FieldOf(j, "choices").items[1], "message"), "content")

\* the parsed body has no `choices` or an empty one
EmptyOrMissingChoices(j) ==
    \/ j.t # "object"
    \/ FieldOf(j, "choices") \in {Absent, JNull, JArr(<<>>), JStr("")}

----------------------------------------------------------------------------
(* Properties.                                                             *)

\* C1 as stated: a request whose body misses a required field is answered 400 with
\* the endpoint's fixed message and causes no provider call, whatever the
\* credential setting is.
C1_Original ==
    \A r \in Slots :
        MissingField(req[r]) =>
            /\ req[r].calls = 0
            /\ req[r].pc = "Responded" => req[r].response = ValidationError(req[r].endpoint)

\* C1 amended: a request whose JSON-object body misses a required field never
\* causes a provider call; it is answered 400 with the endpoint's fixed message
\* when the credential is present at the time it is handled, and 500 with the
\* credential error when it is absent.
C1_MissingFieldRejected ==
    \A r \in Slots :
        MissingField(req[r]) =>
            /\ req[r].calls = 0
            /\ req[r].pc \in {"Idle", "Received", "Responded"}
            /\ req[r].pc = "Responded" =>
                  req[r].response = IF KeyPresent(req[r])
                                    THEN ValidationError(req[r].endpoint)
                                    ELSE ConfigurationError

C1_Witness ==
    \E r \in Slots :
        /\ MissingField(req[r])
        /\ KeyPresent(req[r])
        /\ req[r].pc = "Responded"
        /\ req[r].endpoint = FAQ
        /\ req[r].response.status = 400

\* C2: a request handled while the credential is unset or empty is answered 500
\* with the credential error and causes no provider call, whatever its body; the
\* step that handles a request reads the environment as it is at that step, so a
\* request handled while the credential is present never gets the credential error.
C2_CredentialCheckedPerRequest ==
    [][\A r \in Slots :
          req[r].pc = "Received" /\ req'[r].pc # "Received" =>
              IF env \in {"UNSET", ""}
              THEN /\ req'[r].pc = "Responded"
                   /\ req'[r].response = ConfigurationError
                   /\ req'[r].calls = 0
              ELSE /\ req'[r].response # ConfigurationError
                   /\ req'[r].NVIDIA_API_KEY = env]_vars

C2_Witness ==
    \E r \in Slots :
        /\ prev = "present"
        /\ req[r].pc = "Responded"
        /\ req[r].response = ConfigurationError
        /\ req[r].NVIDIA_API_KEY = ""
        /\ IsObjectBody(req[r]) /\ ~FalsyField(req[r])

\* C3 as stated: every 2xx reply whose parsed body has a non-empty `choices` array
\* is answered 200 with success true and the first choice's message text.
C3_Original ==
    \A r \in Slots :
        Parsed2xx(req[r]) /\ NonEmptyChoices(ParsedBody(req[r])) =>
            /\ req[r].response.status = 200
            /\ req[r].response.body.success = JBool("true")
            /\ FirstChoiceHasText(ParsedBody(req[r])) =>
                  req[r].response.body[ResultKey(req[r].endpoint)]
                      = FirstChoiceTextOf(ParsedBody(req[r]))

\* C3 amended: a 2xx reply whose parsed body has a non-empty `choices` array whose
\* first element is an object with a `message` object holding `content` is answered
\* 200 with success true and exactly that content under ai_response / faq_content,
\* and nothing else; the later choices do not matter.
C3_FirstChoiceReturned ==
    \A r \in Slots :
        Parsed2xx(req[r]) /\ FirstChoiceHasText(ParsedBody(req[r])) =>
            req[r].response =
                Jsonify([NoKeys EXCEPT !.success = JBool("true"),
                                       ![ResultKey(req[r].endpoint)] =
                                           FirstChoiceTextOf(ParsedBody(req[r]))], 200)

C3_Witness ==
    \E r \in Slots :
        /\ Parsed2xx(req[r])
        /\ Len(FieldOf(ParsedBody(req[r]), "choices").items) = 2
        /\ req[r].endpoint = VALIDATE
        /\ req[r].response.status = 200
        /\ req[r].response.body.ai_response = JStr("A")

\* C4 as stated: every 2xx reply whose parsed body has no `choices` or an empty one
\* (an object without the key or with an empty list, null, an array, a scalar) is
\* answered 500 "No valid response from NVIDIA API." with the parsed body attached.
C4_EmptyChoicesReported ==
    \A r \in Slots :
        Parsed2xx(req[r]) /\ EmptyOrMissingChoices(ParsedBody(req[r])) =>
            req[r].response =
                Jsonify([NoKeys EXCEPT !.error = JStr("No valid response from NVIDIA API."),
                                       !.raw_response = ParsedBody(req[r])], 500)

\* C5 as stated: a transport error or a non-2xx status is answered 500 with the
\* error description in `details`; a request causes at most one provider call, and
\* exactly one once it has passed the credential and field checks.
C5_FailureReportedOnce ==
    \A r \in Slots :
        /\ req[r].calls <= 1
        /\ req[r].pc = "Responded" /\ KeyPresent(req[r]) /\ IsObjectBody(req[r])
              /\ ~FalsyField(req[r]) => req[r].calls = 1
        /\ Answered(req[r]) /\ ~Is2xx(req[r].nvidia_response) =>
              /\ req[r].response.status = 500
              /\ req[r].response.body.details \in
                    {JStr(req[r].nvidia_response.msg),
                     JStr(RaiseForStatus(req[r].nvidia_response).msg)}
              /\ req[r].response.body.details # JStr("")

\* C6 as stated: a 2xx reply whose body is not JSON is answered 500 "Invalid JSON
\* response from NVIDIA API." with the raw text attached, by the JSON-decode clause
\* and not by the request-failure clause or the catch-all.
C6_InvalidJsonReported ==
    \A r \in Slots :
        Answered(req[r]) /\ Is2xx(req[r].nvidia_response)
            /\ ParseJSON(req[r].nvidia_response.text).exc # "" =>
            req[r].response =
                Jsonify([NoKeys EXCEPT
                            !.error = JStr("Invalid JSON response from NVIDIA API."),
                            !.raw_response = JStr(req[r].nvidia_response.text)], 500)

NextStage(pc) ==
    CASE pc = "Idle" -> "Received"
      [] pc = "Received" -> "Validated"
      [] pc = "Validated" -> "Rendered"
      [] pc = "Rendered" -> "Called"
      [] pc = "Called" -> "Responded"
      [] OTHER -> "Idle"

\* C8: a request moves Received -> Validated -> Rendered -> Called -> Responded one
\* stage at a time, or from Received or Called straight to Responded on a failure;
\* no stage is entered twice; it reaches Validated only with the credential present
\* and every required field truthy, and the provider call is issued only from
\* Rendered; the response is sent exactly when Responded is entered; and with the
\* handler scheduled and the call coming back, every received request is responded.
C8_LinearPipeline ==
    /\ [][\A r \in Slots :
             LET a == req[r]
                 b == req'[r]
             IN  /\ a.pc # b.pc =>
                       \/ b.pc = NextStage(a.pc)
                       \/ a.pc \in {"Received", "Called"} /\ b.pc = "Responded"
                 /\ a.pc # b.pc /\ b.pc = "Validated" =>
                       /\ env \notin {"UNSET", ""}
                       /\ IsObjectBody(a) /\ ~FalsyField(a)
                 /\ b.calls # a.calls =>
                       \/ a.pc = "Rendered" /\ b.pc = "Called" /\ b.calls = 1
                          /\ KeyPresent(a) /\ ~FalsyField(a)
                       \/ b.pc = "Idle" /\ b.calls = 0
                 /\ b.sent # a.sent =>
                       \/ a.pc # "Responded" /\ b.pc = "Responded" /\ b.sent = 1
                       \/ b.pc = "Idle" /\ b.sent = 0
                 /\ a.pc # "Responded" /\ b.pc = "Responded" => b.sent = a.sent + 1]_vars
    /\ \A r \in OneSlot : (req[r].pc = "Received") ~> (req[r].pc = "Responded")

C8_Witness ==
    \E r \in Slots :
        /\ req[r].pc = "Responded"
        /\ req[r].calls = 1
        /\ req[r].sent = 1
        /\ req[r].payload.max_tokens = 1000
        /\ req[r].response.status = 200

\* the response the taxonomy of section 4.3 assigns to a request of the concurrent
\* specifications, from that request's own endpoint, body, credential and reply
ExpectedResponse(slot) ==
    LET Error(status, e) == Jsonify([NoKeys EXCEPT !.error = JStr(e)], status)
        Detailed(prefix, d) ==
            Jsonify([NoKeys EXCEPT !.error = JStr(prefix \o d), !.details = JStr(d)], 500)
        post == slot.nvidia_response
    IN  IF slot.NVIDIA_API_KEY \in {"UNSET", ""}
        THEN Error(500, "NVIDIA_API_KEY is not set in the .env file.")
        ELSE IF slot.body.val = JNull
        THEN Detailed("An unexpected error occurred: ",
                      "'NoneType' object has no attribute 'get'")
        ELSE IF \E i \in 1..Len(slot.body.val.items) : slot.body.val.items[i] = JStr("")
        THEN Error(400, IF slot.endpoint = "/validate_startup"
                        THEN "Missing one or more required startup details."
                        ELSE "Missing startup name or description.")
        ELSE IF post.exc = "ReadTimeout"
        THEN Detailed("NVIDIA API request failed: ", "Read timed out. (read timeout=60)")
        ELSE IF post.status = 503
        THEN Detailed("NVIDIA API request failed: ",
                      "503 Error for url: https://integrate.api.nvidia.com/v1/chat/completions")
        ELSE IF post.text = "{\"choices\":[]}"
        THEN Jsonify([NoKeys EXCEPT !.error = JStr("No valid response from NVIDIA API."),
                                    !.raw_response = JObj(<<"choices">>, <<JArr(<<>>)>>)],
                     500)
        ELSE Jsonify([NoKeys EXCEPT !.success = JBool("true"),
                                    ![IF slot.endpoint = "/validate_startup"
                                      THEN "ai_response" ELSE "faq_content"] = JStr("A")],
                     200)

\* C9: under every interleaving, a step of one request changes only that request's
\* own record and neither the environment nor the library; a request that is not
\* stepping keeps its record; and each response is the one its own endpoint, body,
\* credential read and provider reply determine, whatever the other requests do.
C9_RequestsIndependent ==
    [][/\ \A r \in Slots : \A q \in Slots \ {r} :
             req'[r] # req[r] => req'[q] = req[q]
       /\ req' # req => env' = env /\ lib' = lib
       /\ \A r \in Slots :
             req'[r].pc = "Responded" => req'[r].response = ExpectedResponse(req'[r])]_vars

C9_Witness ==
    \E r \in Slots : \E q \in Slots \ {r} :
        /\ req[r].pc = "Responded" /\ req[q].pc = "Responded"
        /\ req[r].calls = 1 /\ req[q].calls = 1
        /\ req[r].endpoint = req[q].endpoint
        /\ req[r].body = req[q].body
        /\ req[r].nvidia_response.exc = "ReadTimeout"
        /\ req[r].response.status = 500
        /\ req[q].response.status = 200

=============================================================================
